---- MODULE Spec2Model ----
(***************************************************************************)
(* Radar-vs-belt breathing feasibility scripts.                            *)
(*                                                                         *)
(*   belt loop      src/belt_logger.py              record_belt_breathing_rate *)
(*   radar loop     src/xm125_breathing_refapp_pi.py   main                *)
(*   offline merge  src/analyze_session.py                                 *)
(*                                                                         *)
(* Units.  Belt loop time is in whole seconds since start_time.  Belt      *)
(* readings are in thousandths of a BPM and the written rate (two          *)
(* decimals) in hundredths.  Radar rates are in hundredths of a BPM,       *)
(* distances in tenths of a metre.  Timestamps of the offline analysis are *)
(* in quarter seconds.                                                     *)
(*                                                                         *)
(* Python's None and an empty CSV field are the empty sequence, a present  *)
(* value v is <<v>>.                                                       *)
(***************************************************************************)
EXTENDS Integers, Sequences, FiniteSets, TLC

VARIABLES
    \* ---- belt loop (record_belt_breathing_rate) ----
    bpc,                \* position in record_belt_breathing_rate
    duration_s,         \* parameter
    sample_interval_s,  \* parameter
    now,                \* time.time() - start_time
    k,                  \* tick counter
    got_any_data,
    last_bpm,           \* None or the previous raw reading
    data,               \* result of the g.read() in progress
    belt_rows,          \* rows written to the belt CSV
    stop_calls,         \* number of g.stop() calls
    close_calls,        \* number of g.close() calls
    release_log,        \* "stop() error" / "close() error" lines printed
    ret,                \* value of a pending return statement
    status,             \* None until the function has returned
    \* history of the belt run (not program state)
    opened,             \* g.open succeeded
    interrupted,        \* a KeyboardInterrupt was raised
    n_read,             \* polls that returned a reading
    raw_written,        \* raw reading behind each written row
    last_check,         \* elapsed time seen by the latest post-poll check
    poll_start,         \* elapsed time at which the latest iteration began
    on_time,            \* every finished iteration took less than one interval
    \* ---- radar loop (xm125_breathing_refapp_pi.main) ----
    rpc,                \* position in main
    got_signal,         \* interrupt_handler.got_signal
    rclock,             \* time.time() - session_start_unix as the loop runs
    processed_data,     \* frame returned by the ref_app.get_next() in progress
    current_time,       \* relative timestamp of that frame
    radar_enter_time,   \* None until latched
    radar_rows,         \* rows written to the radar CSV
    ref_app_stopped,    \* ref_app.stop() was called
    client_closed,      \* client.close() was called
    radar_error,        \* None, or the exception that left main
    \* history of the radar run (not program state)
    radar_frames,       \* the frame behind each written row
    \* ---- offline analysis (analyze_session.main) ----
    apc,                \* position in main
    radar_csv,          \* rows of the radar CSV file
    belt_csv,           \* rows of the belt CSV file
    belt_shift_s,       \* --belt-shift-s
    radar_df,           \* load_radar: data frame
    t_presence,         \* load_radar: first in-range presence
    t_first_radar,      \* load_radar: first valid breathing rate
    belt_df,            \* load_belt: data frame
    t_first_belt,       \* load_belt: first valid rate
    merged,             \* merge_radar_belt
    metrics             \* compute_feasibility_metrics

beltVars == <<bpc, duration_s, sample_interval_s, now, k, got_any_data, last_bpm,
              data, belt_rows, stop_calls, close_calls, release_log, ret, status,
              opened, interrupted, n_read, raw_written, last_check, poll_start,
              on_time>>

radarVars == <<rpc, got_signal, rclock, processed_data, current_time,
               radar_enter_time, radar_rows, ref_app_stopped, client_closed,
               radar_error, radar_frames>>

analysisVars == <<apc, radar_csv, belt_csv, belt_shift_s, radar_df, t_presence,
                  t_first_radar, belt_df, t_first_belt, merged, metrics>>

None == <<>>
Some(v) == <<v>>
Val(o) == o[1]

Max(a, b) == IF a >= b THEN a ELSE b

(***************************************************************************)
(* Bounds of the belt model.                                               *)
(***************************************************************************)
MaxDuration == 10       \* duration_s ranges over 1..MaxDuration
MaxInterval == 3        \* sample_interval_s ranges over 1..MaxInterval
MaxReadTime == 2        \* a g.read() takes 0..MaxReadTime seconds
MaxReadings == 2        \* the device returns at most this many readings

NO_DATA_TIMEOUT == 8

\* Raw readings the device may return, in thousandths of a BPM.  12001 and
\* 12004 differ but are written alike ("12.00").
BpmReadings == {12001, 12004, 15000}

\* f"{bpm:.2f}": round to two decimals (thousandths -> hundredths).
FormatBpm(bpm) == (bpm + 5) \div 10

\* Mutant of IsNew: compares the rates as written (two decimals).
IsNewWritten(bpm, last) == last = None \/ FormatBpm(Val(last)) # FormatBpm(bpm)
\* bpm != last_bpm, with last_bpm possibly None
IsNew(bpm, last) == last = None \/ Val(last) # bpm

\* Mutant of NoDataTimedOut: >= in place of >.
NoDataTimedOutGe(got, elapsed) == ~got /\ elapsed >= NO_DATA_TIMEOUT
\* (not got_any_data) and (time.time() - start_time > NO_DATA_TIMEOUT)
NoDataTimedOut(got, elapsed) == ~got /\ elapsed > NO_DATA_TIMEOUT

\* next_tick = start_time + k * sample_interval_s; sleep(max(0, next_tick - now))
NextTick(kk, interval) == kk * interval
\* Mutant of AfterSleep: a fixed sleep of one interval after each iteration.
AfterSleepFixed(t, kk, interval) == t + interval
AfterSleep(t, kk, interval) == t + Max(0, NextTick(kk, interval) - t)

BeltStart ==
    /\ bpc = "open"
    /\ duration_s \in 1..MaxDuration
    /\ sample_interval_s \in 1..MaxInterval
    /\ now = 0
    /\ k = 0
    /\ got_any_data = FALSE
    /\ last_bpm = None
    /\ data = None
    /\ belt_rows = <<>>
    /\ stop_calls = 0
    /\ close_calls = 0
    /\ release_log = {}
    /\ ret = 0
    /\ status = None
    /\ opened = FALSE
    /\ interrupted = FALSE
    /\ n_read = 0
    /\ raw_written = <<>>
    /\ last_check = 0
    /\ poll_start = 0
    /\ on_time = TRUE

\* lines 28-31, 38-66: g.open succeeds, sensors selected, start_time taken
OpenOk ==
    /\ bpc = "open"
    /\ bpc' = "while"
    /\ opened' = TRUE
    /\ UNCHANGED <<duration_s, sample_interval_s, now, k, got_any_data, last_bpm,
                   data, belt_rows, stop_calls, close_calls, release_log, ret,
                   status, interrupted, n_read, raw_written, last_check,
                   poll_start,
                   on_time>>
    /\ UNCHANGED <<radarVars, analysisVars>>

\* lines 32-35: g.open raises, return 1
OpenFails ==
    /\ bpc = "open"
    /\ bpc' = "done"
    /\ status' = Some(1)
    /\ UNCHANGED <<duration_s, sample_interval_s, now, k, got_any_data, last_bpm,
                   data, belt_rows, stop_calls, close_calls, release_log, ret,
                   opened, interrupted, n_read, raw_written, last_check,
                   poll_start,
                   on_time>>
    /\ UNCHANGED <<radarVars, analysisVars>>

\* lines 68-74: loop test; on entry the iteration's timestamps are taken
WhileTest ==
    /\ bpc = "while"
    /\ IF now < duration_s
          THEN /\ bpc' = "read"
               /\ poll_start' = now
          ELSE /\ bpc' = "finally_stop"
               /\ UNCHANGED poll_start
    /\ UNCHANGED <<duration_s, sample_interval_s, now, k, got_any_data, last_bpm,
                   data, belt_rows, stop_calls, close_calls, release_log, ret,
                   status, opened, interrupted, n_read, raw_written, last_check,
                   on_time>>
    /\ UNCHANGED <<radarVars, analysisVars>>

\* line 76: data = g.read(), blocking for some time
Read ==
    /\ bpc = "read"
    /\ \E d \in 0..MaxReadTime :
         now' = now + d
    /\ \E r \in {None} \cup {Some(b) : b \in BpmReadings} :
         /\ r # None => n_read < MaxReadings
         /\ data' = r
         /\ n_read' = IF r # None THEN n_read + 1 ELSE n_read
    /\ bpc' = "handle"
    /\ UNCHANGED <<duration_s, sample_interval_s, k, got_any_data, last_bpm,
                   belt_rows, stop_calls, close_calls, release_log, ret, status,
                   opened, interrupted, raw_written, last_check, poll_start,
                   on_time>>
    /\ UNCHANGED <<radarVars, analysisVars>>

\* lines 78-95: a reading is compared, remembered and written; no data is logged
Handle ==
    /\ bpc = "handle"
    /\ IF data # None
          THEN /\ got_any_data' = TRUE
               /\ last_bpm' = data
               /\ belt_rows' = Append(belt_rows,
                     [Belt_Breath_Rate_BPM |-> FormatBpm(Val(data)),
                      Is_New_Value |-> IsNew(Val(data), last_bpm)])
               /\ raw_written' = Append(raw_written, Val(data))
          ELSE UNCHANGED <<got_any_data, last_bpm, belt_rows, raw_written>>
    /\ bpc' = "check"
    /\ UNCHANGED <<duration_s, sample_interval_s, now, k, data, stop_calls,
                   close_calls, release_log, ret, status, opened, interrupted,
                   n_read, last_check, poll_start,
                   on_time>>
    /\ UNCHANGED <<radarVars, analysisVars>>

\* lines 98, 111: the post-poll no-data check, then k += 1
Check ==
    /\ bpc = "check"
    /\ last_check' = now
    /\ IF NoDataTimedOut(got_any_data, now)
          THEN /\ bpc' = "abort_stop"
               /\ UNCHANGED k
          ELSE /\ bpc' = "sleep"
               /\ k' = k + 1
    /\ UNCHANGED <<duration_s, sample_interval_s, now, got_any_data, last_bpm,
                   data, belt_rows, stop_calls, close_calls, release_log, ret,
                   status, opened, interrupted, n_read, raw_written, poll_start,
                   on_time>>
    /\ UNCHANGED <<radarVars, analysisVars>>

\* lines 100-103: g.stop() of the no-data abort; an error is printed
AbortStop ==
    /\ bpc = "abort_stop"
    /\ stop_calls' = stop_calls + 1
    /\ \E err \in BOOLEAN :
         release_log' = IF err THEN release_log \cup {"stop() error"} ELSE release_log
    /\ bpc' = "abort_close"
    /\ UNCHANGED <<duration_s, sample_interval_s, now, k, got_any_data, last_bpm,
                   data, belt_rows, close_calls, ret, status, opened, interrupted,
                   n_read, raw_written, last_check, poll_start,
                   on_time>>
    /\ UNCHANGED <<radarVars, analysisVars>>

\* lines 104-109: g.close() of the no-data abort, then return 2, which enters
\* the finally block of line 118
AbortClose ==
    /\ bpc = "abort_close"
    /\ close_calls' = close_calls + 1
    /\ \E err \in BOOLEAN :
         release_log' = IF err THEN release_log \cup {"close() error"} ELSE release_log
    /\ ret' = 2
    /\ bpc' = "finally_stop"
    /\ UNCHANGED <<duration_s, sample_interval_s, now, k, got_any_data, last_bpm,
                   data, belt_rows, stop_calls, status, opened, interrupted,
                   n_read, raw_written, last_check, poll_start,
                   on_time>>
    /\ UNCHANGED <<radarVars, analysisVars>>

\* lines 113-114: sleep until start_time + k * sample_interval_s
Sleep ==
    /\ bpc = "sleep"
    /\ now' = AfterSleep(now, k, sample_interval_s)
    /\ on_time' = (on_time /\ now - poll_start < sample_interval_s)
    /\ bpc' = "while"
    /\ UNCHANGED <<duration_s, sample_interval_s, k, got_any_data, last_bpm, data,
                   belt_rows, stop_calls, close_calls, release_log, ret, status,
                   opened, interrupted, n_read, raw_written, last_check,
                   poll_start>>
    /\ UNCHANGED <<radarVars, analysisVars>>

\* Positions inside the try block of lines 67-114.
InTry == {"while", "read", "handle", "check", "abort_stop", "abort_close", "sleep"}

\* lines 116-117: KeyboardInterrupt raised anywhere in the try block; the
\* statement in progress is abandoned and control passes to the finally block
KeyboardInterrupt ==
    /\ bpc \in InTry
    /\ ~interrupted
    /\ interrupted' = TRUE
    /\ bpc' = "finally_stop"
    /\ UNCHANGED <<duration_s, sample_interval_s, now, k, got_any_data, last_bpm,
                   data, belt_rows, stop_calls, close_calls, release_log, ret,
                   status, opened, n_read, raw_written, last_check, poll_start,
                   on_time>>
    /\ UNCHANGED <<radarVars, analysisVars>>

\* lines 118-123: finally: g.stop()
FinallyStop ==
    /\ bpc = "finally_stop"
    /\ stop_calls' = stop_calls + 1
    /\ \E err \in BOOLEAN :
         release_log' = IF err THEN release_log \cup {"stop() error"} ELSE release_log
    /\ bpc' = "finally_close"
    /\ UNCHANGED <<duration_s, sample_interval_s, now, k, got_any_data, last_bpm,
                   data, belt_rows, close_calls, ret, status, opened, interrupted,
                   n_read, raw_written, last_check, poll_start,
                   on_time>>
    /\ UNCHANGED <<radarVars, analysisVars>>

\* lines 124-131: finally: g.close(); then the pending return 2, or return 0
FinallyClose ==
    /\ bpc = "finally_close"
    /\ close_calls' = close_calls + 1
    /\ \E err \in BOOLEAN :
         release_log' = IF err THEN release_log \cup {"close() error"} ELSE release_log
    /\ status' = Some(ret)
    /\ bpc' = "done"
    /\ UNCHANGED <<duration_s, sample_interval_s, now, k, got_any_data, last_bpm,
                   data, belt_rows, stop_calls, ret, opened, interrupted, n_read,
                   raw_written, last_check, poll_start,
                   on_time>>
    /\ UNCHANGED <<radarVars, analysisVars>>

BeltNext ==
    \/ OpenOk
    \/ OpenFails
    \/ WhileTest
    \/ Read
    \/ Handle
    \/ Check
    \/ AbortStop
    \/ AbortClose
    \/ Sleep
    \/ KeyboardInterrupt
    \/ FinallyStop
    \/ FinallyClose


(***************************************************************************)
(* Radar loop: xm125_breathing_refapp_pi.main, lines 111-228.              *)
(***************************************************************************)
MaxFrames == 3          \* the ref app delivers at most this many frames

ENTER_DISTANCE_MIN == 4
ENTER_DISTANCE_MAX == 7

\* breathing_result: None, or a result whose breathing_rate is None, 0 or a
\* rate in hundredths of a BPM (the breathing processor reports rates between its lowest and
\* highest rate, 8 and 30 BPM, so none is negative).
BreathingResults == {None} \cup {Some(r) : r \in {None, Some(0), Some(1200)}}

\* presence_result: None, or a result with presence_detected and
\* presence_distance (None or tenths of a metre).
PresenceResults ==
    {None} \cup
    {Some([presence_detected |-> TRUE, presence_distance |-> d]) :
        d \in {None, Some(3), Some(4), Some(7), Some(8)}} \cup
    {Some([presence_detected |-> FALSE, presence_distance |-> Some(4)])}

\* The frames get_next() delivers.  The loop handles the two results of a
\* frame apart (the quality flag reads of presence_result only whether it is
\* None), so a frame varies one of them in full while the other is absent or
\* a plain one.
Frames ==
    {f \in [breathing_result : BreathingResults, presence_result : PresenceResults] :
        \/ f.breathing_result = None
        \/ f.presence_result = None
        \/ Val(f.presence_result).presence_distance = Some(ENTER_DISTANCE_MIN)}

\* Mutant of InEnterRange: the window's ends are excluded.
InEnterRangeOpen(detected, distance) ==
    /\ detected
    /\ distance # None
    /\ ENTER_DISTANCE_MIN < Val(distance) /\ Val(distance) < ENTER_DISTANCE_MAX
\* lines 171-173: presence_detected and presence_distance is not None
\* and ENTER_DISTANCE_MIN <= presence_distance <= ENTER_DISTANCE_MAX
InEnterRange(detected, distance) ==
    /\ detected
    /\ distance # None
    /\ ENTER_DISTANCE_MIN <= Val(distance) /\ Val(distance) <= ENTER_DISTANCE_MAX

\* Mutant of EnterTime: the latch is written on every in-range frame.
EnterTimeOverwrite(enter, presence_res, t) ==
    IF /\ presence_res # None
       /\ InEnterRange(Val(presence_res).presence_detected,
                       Val(presence_res).presence_distance)
       THEN Some(t)
       ELSE enter
\* lines 159, 169-175: radar_enter_time after the frame
EnterTime(enter, presence_res, t) ==
    IF /\ presence_res # None
       /\ enter = None
       /\ InEnterRange(Val(presence_res).presence_detected,
                       Val(presence_res).presence_distance)
       THEN Some(t)
       ELSE enter

\* Mutant of Truthy: "br is not None" in place of "if br".
TruthyNotNone(br) == br # None
\* line 181: "if br" is false for None and for 0
Truthy(br) == br # None /\ Val(br) # 0

\* lines 149, 179-199: quality_flag
QualityFlag(breathing_res, presence_res) ==
    IF breathing_res # None
       THEN IF Truthy(Val(breathing_res)) THEN "breathing" ELSE "breathing_no_rate"
       ELSE IF presence_res # None THEN "presence_only" ELSE "none"

\* lines 150, 179-184: breath_rate_bpm ("" unless the rate is used; ratio is 1.0)
BreathRateBpm(breathing_res) ==
    IF breathing_res # None /\ Truthy(Val(breathing_res))
       THEN Val(breathing_res)
       ELSE None

\* lines 152-161, 201-219: the row written for a frame.  csv.writer writes
\* None as the empty field, like "".
RadarRow(frame, t, enter) ==
    [Timestamp |-> t,
     Quality_Flag |-> QualityFlag(frame.breathing_result, frame.presence_result),
     Breath_Rate_BPM |-> BreathRateBpm(frame.breathing_result),
     Presence_Detected |->
        IF frame.presence_result = None THEN None
        ELSE Some(Val(frame.presence_result).presence_detected),
     Presence_Distance_m |->
        IF frame.presence_result = None THEN None
        ELSE Val(frame.presence_result).presence_distance,
     Radar_Enter_Time |-> enter]

RadarStart ==
    /\ rpc = "while"
    /\ got_signal = FALSE
    /\ rclock = 0
    /\ processed_data = None
    /\ current_time = 0
    /\ radar_enter_time = None
    /\ radar_rows = <<>>
    /\ ref_app_stopped = FALSE
    /\ client_closed = FALSE
    /\ radar_error = None
    /\ radar_frames = <<>>

\* The radar loop is not running (belt and analysis specifications).
RadarIdle ==
    /\ rpc = "idle"
    /\ got_signal = FALSE
    /\ rclock = 0
    /\ processed_data = None
    /\ current_time = 0
    /\ radar_enter_time = None
    /\ radar_rows = <<>>
    /\ ref_app_stopped = FALSE
    /\ client_closed = FALSE
    /\ radar_error = None
    /\ radar_frames = <<>>

\* The belt loop is not running (radar and analysis specifications).
BeltIdle ==
    /\ bpc = "idle"
    /\ duration_s = 1
    /\ sample_interval_s = 1
    /\ now = 0
    /\ k = 0
    /\ got_any_data = FALSE
    /\ last_bpm = None
    /\ data = None
    /\ belt_rows = <<>>
    /\ stop_calls = 0
    /\ close_calls = 0
    /\ release_log = {}
    /\ ret = 0
    /\ status = None
    /\ opened = FALSE
    /\ interrupted = FALSE
    /\ n_read = 0
    /\ raw_written = <<>>
    /\ last_check = 0
    /\ poll_start = 0
    /\ on_time = TRUE

\* line 115: the interrupt handler records the signal; the loop is not unwound
Signal ==
    /\ rpc \in {"while", "get_next", "process"}
    /\ ~got_signal
    /\ got_signal' = TRUE
    /\ UNCHANGED <<rpc, rclock, processed_data, current_time, radar_enter_time,
                   radar_rows, ref_app_stopped, client_closed, radar_error,
                   radar_frames>>
    /\ UNCHANGED <<beltVars, analysisVars>>

\* line 139: while not interrupt_handler.got_signal
RadarWhileTest ==
    /\ rpc = "while"
    /\ rpc' = IF got_signal THEN "stop" ELSE "get_next"
    /\ UNCHANGED <<got_signal, rclock, processed_data, current_time,
                   radar_enter_time, radar_rows, ref_app_stopped, client_closed,
                   radar_error, radar_frames>>
    /\ UNCHANGED <<beltVars, analysisVars>>

\* lines 140-142: ref_app.get_next() returns a frame; the timestamps are taken
GetNext ==
    /\ rpc = "get_next"
    /\ Len(radar_rows) < MaxFrames
    /\ \E f \in Frames : processed_data' = Some(f)
    /\ current_time' = rclock
    /\ rclock' = rclock + 1
    /\ rpc' = "process"
    /\ UNCHANGED <<got_signal, radar_enter_time, radar_rows, ref_app_stopped,
                   client_closed, radar_error, radar_frames>>
    /\ UNCHANGED <<beltVars, analysisVars>>

\* line 140: ref_app.get_next() raises PGProccessDiedException.  The call is
\* outside the try block of line 144, so the handler of line 221 does not
\* apply: the exception leaves the loop and main, and lines 224 and 227 are
\* not reached.
GetNextDied ==
    /\ rpc = "get_next"
    /\ radar_error' = Some("PGProccessDiedException")
    /\ rpc' = "raised"
    /\ UNCHANGED <<got_signal, rclock, processed_data, current_time,
                   radar_enter_time, radar_rows, ref_app_stopped, client_closed,
                   radar_frames>>
    /\ UNCHANGED <<beltVars, analysisVars>>

\* lines 144-219: the frame is classified, the enter time latched, a row written
Process ==
    /\ rpc = "process"
    /\ LET frame == Val(processed_data)
           enter == EnterTime(radar_enter_time, frame.presence_result, current_time)
       IN  /\ radar_enter_time' = enter
           /\ radar_rows' = Append(radar_rows, RadarRow(frame, current_time, enter))
           /\ radar_frames' = Append(radar_frames, frame)
    /\ rpc' = "while"
    /\ UNCHANGED <<got_signal, rclock, processed_data, current_time,
                   ref_app_stopped, client_closed, radar_error>>
    /\ UNCHANGED <<beltVars, analysisVars>>

\* line 224: ref_app.stop()
StopRefApp ==
    /\ rpc = "stop"
    /\ ref_app_stopped' = TRUE
    /\ rpc' = "close"
    /\ UNCHANGED <<got_signal, rclock, processed_data, current_time,
                   radar_enter_time, radar_rows, client_closed, radar_error,
                   radar_frames>>
    /\ UNCHANGED <<beltVars, analysisVars>>

\* line 227: client.close()
CloseClient ==
    /\ rpc = "close"
    /\ client_closed' = TRUE
    /\ rpc' = "done"
    /\ UNCHANGED <<got_signal, rclock, processed_data, current_time,
                   radar_enter_time, radar_rows, ref_app_stopped, radar_error,
                   radar_frames>>
    /\ UNCHANGED <<beltVars, analysisVars>>

RadarNext ==
    \/ Signal
    \/ RadarWhileTest
    \/ GetNext
    \/ GetNextDied
    \/ Process
    \/ StopRefApp
    \/ CloseClient

(***************************************************************************)
(* Offline analysis: analyze_session.py.  Timestamps are in quarter        *)
(* seconds, rates in hundredths of a BPM, distances in tenths of a metre.  *)
(***************************************************************************)
MaxRadarRows == 2       \* rows of the radar CSV handed to the analysis
MaxBeltRows == 2        \* rows of the belt CSV handed to the analysis

tolerance_s == 2        \* 0.5 s
presence_min == 4       \* 0.4 m
presence_max == 7       \* 0.7 m

Abs(x) == IF x >= 0 THEN x ELSE -x
MinOf(S) == CHOOSE x \in S : \A y \in S : x <= y
MaxOf(S) == CHOOSE x \in S : \A y \in S : x >= y

RECURSIVE SumSeq(_)
SumSeq(xs) == IF xs = <<>> THEN 0 ELSE xs[1] + SumSeq(Tail(xs))

\* Mutant of PresenceMask: Presence_Detected is not consulted.
PresenceMaskAnyDetected(row, lo, hi) ==
    /\ row.Presence_Distance_m # None
    /\ Val(row.Presence_Distance_m) >= lo
    /\ Val(row.Presence_Distance_m) <= hi
\* lines 53-57: mask_pres (comparisons with a missing distance are false)
PresenceMask(row, lo, hi) ==
    /\ row.Presence_Detected = Some(TRUE)
    /\ row.Presence_Distance_m # None
    /\ Val(row.Presence_Distance_m) >= lo
    /\ Val(row.Presence_Distance_m) <= hi

\* line 62: mask_breath
BreathMask(row) == row.Quality_Flag = "breathing" /\ row.Breath_Rate_BPM # None

\* line 76: mask_valid
BeltMask(row) == row.Belt_Breath_Rate_BPM # None

\* df.loc[mask, "Timestamp"].min() if mask.any() else None, for the rows of
\* df that the mask selects
MinTimestamp(df, selected) ==
    LET S == {df[i].Timestamp : i \in selected}
    IN  IF S = {} THEN None ELSE Some(MinOf(S))

\* lines 36-65: load_radar -> (df, t_presence, t_first_breath).  The numeric
\* columns of the file parse to the numbers that were written; an empty
\* field parses to a missing value.
LoadRadar(csv, lo, hi) ==
    [df |-> csv,
     t_presence |->
        MinTimestamp(csv, {i \in 1..Len(csv) : PresenceMask(csv[i], lo, hi)}),
     t_first_breath |->
        MinTimestamp(csv, {i \in 1..Len(csv) : BreathMask(csv[i])})]

\* lines 68-79: load_belt -> (df, t_first_belt)
LoadBelt(csv) ==
    [df |-> csv,
     t_first_belt |-> MinTimestamp(csv, {i \in 1..Len(csv) : BeltMask(csv[i])})]

\* Mutant of TimestampShifted: the shift is subtracted.
TimestampShiftedMinus(t, shift) == t - shift
\* line 89: belt_df["Timestamp"] + belt_shift_s
TimestampShifted(t, shift) == t + shift

\* lines 88-89: the belt frame with its Timestamp_shifted column
WithShifted(df, shift) ==
    [i \in 1..Len(df) |->
        [Timestamp |-> df[i].Timestamp,
         Belt_Breath_Rate_BPM |-> df[i].Belt_Breath_Rate_BPM,
         Timestamp_shifted |-> TimestampShifted(df[i].Timestamp, shift)]]

\* lines 91-92: sort_values(by): rows in ascending order of column by, rows
\* with equal keys in their original order
RECURSIVE SortValues(_, _)
SortValues(df, by) ==
    IF df = <<>> THEN <<>>
    ELSE LET head == SortValues(SubSeq(df, 1, Len(df) - 1), by)
             row == df[Len(df)]
             n == Cardinality({i \in 1..Len(head) : head[i][by] <= row[by]})
         IN  SubSeq(head, 1, n) \o <<row>> \o SubSeq(head, n + 1, Len(head))

\* merge_asof, backward search: the last right row whose key is <= t, if it
\* is within the tolerance; 0 for no row
AsofBackward(right, t, tol) ==
    LET c == {j \in 1..Len(right) : right[j].Timestamp_shifted <= t}
    IN  IF c = {} THEN 0
        ELSE IF t - right[MaxOf(c)].Timestamp_shifted > tol THEN 0 ELSE MaxOf(c)

\* merge_asof, forward search: the first right row whose key is >= t, if it
\* is within the tolerance; 0 for no row
AsofForward(right, t, tol) ==
    LET c == {j \in 1..Len(right) : right[j].Timestamp_shifted >= t}
    IN  IF c = {} THEN 0
        ELSE IF right[MinOf(c)].Timestamp_shifted - t > tol THEN 0 ELSE MinOf(c)

\* Mutant of AsofNearest: direction="backward".
AsofBackwardOnly(right, t, tol) == AsofBackward(right, t, tol)
\* lines 94-102: merge_asof(direction="nearest", tolerance=tol): the closer of
\* the backward and the forward candidate, the backward one on a tie
AsofNearest(right, t, tol) ==
    LET b == AsofBackward(right, t, tol)
        f == AsofForward(right, t, tol)
    IN  IF b # 0 /\ f # 0
           THEN IF t - right[b].Timestamp_shifted <= right[f].Timestamp_shifted - t
                   THEN b ELSE f
           ELSE IF b # 0 THEN b ELSE f

\* One row of the merged frame: the radar row and, when a belt row j was
\* found, that row's columns (both frames have a Timestamp column, which gets
\* the suffixes _radar and _belt); right_index is merge_asof's indexer.
MergedRow(left_row, right, j) ==
    [Timestamp_radar |-> left_row.Timestamp,
     Quality_Flag |-> left_row.Quality_Flag,
     Breath_Rate_BPM |-> left_row.Breath_Rate_BPM,
     right_index |-> j,
     Timestamp_belt |-> IF j = 0 THEN None ELSE Some(right[j].Timestamp),
     Belt_Breath_Rate_BPM |-> IF j = 0 THEN None ELSE right[j].Belt_Breath_Rate_BPM,
     Timestamp_shifted |-> IF j = 0 THEN None ELSE Some(right[j].Timestamp_shifted)]

\* lines 82-103: merge_radar_belt
MergeRadarBelt(radar, belt, shift, tol) ==
    LET radar_sorted == SortValues(radar, "Timestamp")
        belt_sorted == SortValues(WithShifted(belt, shift), "Timestamp_shifted")
    IN  [i \in 1..Len(radar_sorted) |->
            MergedRow(radar_sorted[i], belt_sorted,
                      AsofNearest(belt_sorted, radar_sorted[i].Timestamp, tol))]

\* lines 123-126: valid_mask
ValidMask(row) == row.Breath_Rate_BPM # None /\ row.Belt_Breath_Rate_BPM # None

\* line 130: diff
Diff(valid) ==
    [i \in 1..Len(valid) |->
        Val(valid[i].Breath_Rate_BPM) - Val(valid[i].Belt_Breath_Rate_BPM)]

\* Series.mean(): the exact quotient num / den
Mean(xs) == [num |-> SumSeq(xs), den |-> Len(xs)]

\* np.corrcoef(x, y)[0, 1] = cov / sqrt(var_x * var_y), each scaled by n^2;
\* nan when var_x * var_y = 0
Corrcoef(xs, ys) ==
    LET n == Len(xs)
        sx == SumSeq(xs)
        sy == SumSeq(ys)
    IN  [cov |-> n * SumSeq([i \in 1..n |-> xs[i] * ys[i]]) - sx * sy,
         var_x |-> n * SumSeq([i \in 1..n |-> xs[i] * xs[i]]) - sx * sx,
         var_y |-> n * SumSeq([i \in 1..n |-> ys[i] * ys[i]]) - sy * sy]

\* lines 130-138: the four metrics of a set of valid rows
OverlapValues(valid) ==
    [mean_abs_error_bpm |->
        Some(Mean([i \in 1..Len(valid) |-> Abs(Diff(valid)[i])])),
     mean_signed_error_bpm |-> Some(Mean(Diff(valid))),
     corr_radar_belt |->
        Some(Corrcoef([i \in 1..Len(valid) |-> Val(valid[i].Breath_Rate_BPM)],
                      [i \in 1..Len(valid) |-> Val(valid[i].Belt_Breath_Rate_BPM)])),
     n_overlap_samples |-> Some(Len(valid))]

\* Mutant of OverlapMetrics: no test for an empty overlap.
OverlapMetricsUnguarded(valid) == OverlapValues(valid)
\* lines 129-143: if not valid.empty ... else ...
OverlapMetrics(valid) ==
    IF valid # <<>>
       THEN OverlapValues(valid)
       ELSE [mean_abs_error_bpm |-> None,
             mean_signed_error_bpm |-> None,
             corr_radar_belt |-> None,
             n_overlap_samples |-> Some(0)]

\* lines 115-120: radar_cold_start_from_presence
ColdStart(tp, tb) == IF tp # None /\ tb # None THEN Some(Val(tb) - Val(tp)) ELSE None

\* lines 106-145: compute_feasibility_metrics
ComputeFeasibilityMetrics(tp, tfr, tfb, m) ==
    [t_presence |-> tp,
     t_first_radar_breath |-> tfr,
     t_first_belt_breath |-> tfb,
     radar_cold_start_from_presence |-> ColdStart(tp, tfr),
     overlap |-> OverlapMetrics(SelectSeq(m, ValidMask))]

(***************************************************************************)
(* Input files of the analysis.  A radar CSV holds the rows the radar loop *)
(* writes for a sequence of frames; both files are in time order, as the   *)
(* loops write them.                                                       *)
(***************************************************************************)
MergeTimes == {0, 2, 3, 6}
ColdStartTimes == {0, 8, 40}        \* 0 s, 2.0 s, 10.0 s
Shifts == {-1, 0, 2}
BeltRates == {None, Some(1200)}

\* Frames of the merge inputs: no result at all, or a rate of 15.00 BPM.
MergeFrames ==
    {[breathing_result |-> b, presence_result |-> None] :
        b \in {None, Some(Some(1500))}}

\* Frames of the cold-start inputs.
ColdStartFrames ==
    [breathing_result : {None, Some(None), Some(Some(1200))},
     presence_result : PresenceResults]

\* Non-decreasing sequences of n members of S.
SortedSeqs(S, n) == {ts \in [1..n -> S] : \A i \in 1..(n - 1) : ts[i] <= ts[i + 1]}

\* radar_enter_time after frames 1..i (lines 119, 169-175)
RECURSIVE EnterAfter(_, _, _)
EnterAfter(frames, times, i) ==
    IF i = 0 THEN None
    ELSE EnterTime(EnterAfter(frames, times, i - 1), frames[i].presence_result, times[i])

\* The rows the radar loop writes for the frames at the times.
RadarCsvOf(frames, times) ==
    [i \in 1..Len(frames) |-> RadarRow(frames[i], times[i], EnterAfter(frames, times, i))]

\* The belt CSV with the rates at the times.
BeltCsvOf(rates, times) ==
    [i \in 1..Len(rates) |-> [Timestamp |-> times[i], Belt_Breath_Rate_BPM |-> rates[i]]]

AnalysisBlank ==
    /\ radar_df = <<>>
    /\ t_presence = None
    /\ t_first_radar = None
    /\ belt_df = <<>>
    /\ t_first_belt = None
    /\ merged = <<>>
    /\ metrics = None

\* The analysis is not running (belt and radar specifications).
AnalysisIdle ==
    /\ apc = "idle"
    /\ radar_csv = <<>>
    /\ belt_csv = <<>>
    /\ belt_shift_s = 0
    /\ AnalysisBlank

\* lines 199-208: a session to merge, with a belt shift
MergeStart ==
    /\ apc = "load_radar"
    /\ \E n \in 1..MaxRadarRows :
          \E fr \in [1..n -> MergeFrames], ts \in SortedSeqs(MergeTimes, n) :
             radar_csv = RadarCsvOf(fr, ts)
    /\ \E n \in 1..MaxBeltRows :
          \E rs \in [1..n -> BeltRates], ts \in SortedSeqs(MergeTimes, n) :
             belt_csv = BeltCsvOf(rs, ts)
    /\ belt_shift_s \in Shifts
    /\ AnalysisBlank

\* lines 199-208: a session whose radar rows carry presence and breathing
ColdStartStart ==
    /\ apc = "load_radar"
    /\ \E n \in 1..MaxRadarRows :
          \E fr \in [1..n -> ColdStartFrames], ts \in SortedSeqs(ColdStartTimes, n) :
             radar_csv = RadarCsvOf(fr, ts)
    /\ belt_csv = <<[Timestamp |-> 0, Belt_Breath_Rate_BPM |-> Some(1200)]>>
    /\ belt_shift_s = 0
    /\ AnalysisBlank

\* lines 210-213: radar_df, t_presence, t_first_radar = load_radar(...)
LoadRadarStep ==
    /\ apc = "load_radar"
    /\ LET r == LoadRadar(radar_csv, presence_min, presence_max)
       IN  /\ radar_df' = r.df
           /\ t_presence' = r.t_presence
           /\ t_first_radar' = r.t_first_breath
    /\ apc' = "load_belt"
    /\ UNCHANGED <<radar_csv, belt_csv, belt_shift_s, belt_df, t_first_belt,
                   merged, metrics>>
    /\ UNCHANGED <<beltVars, radarVars>>

\* line 214: belt_df, t_first_belt = load_belt(belt_csv)
LoadBeltStep ==
    /\ apc = "load_belt"
    /\ LET r == LoadBelt(belt_csv)
       IN  /\ belt_df' = r.df
           /\ t_first_belt' = r.t_first_belt
    /\ apc' = "merge"
    /\ UNCHANGED <<radar_csv, belt_csv, belt_shift_s, radar_df, t_presence,
                   t_first_radar, merged, metrics>>
    /\ UNCHANGED <<beltVars, radarVars>>

\* lines 216-218: merged = merge_radar_belt(..., tolerance_s=0.5)
MergeStep ==
    /\ apc = "merge"
    /\ merged' = MergeRadarBelt(radar_df, belt_df, belt_shift_s, tolerance_s)
    /\ apc' = "metrics"
    /\ UNCHANGED <<radar_csv, belt_csv, belt_shift_s, radar_df, t_presence,
                   t_first_radar, belt_df, t_first_belt, metrics>>
    /\ UNCHANGED <<beltVars, radarVars>>

\* lines 220-234: metrics = compute_feasibility_metrics(...), printed
MetricsStep ==
    /\ apc = "metrics"
    /\ metrics' = Some(ComputeFeasibilityMetrics(t_presence, t_first_radar,
                                                 t_first_belt, merged))
    /\ apc' = "done"
    /\ UNCHANGED <<radar_csv, belt_csv, belt_shift_s, radar_df, t_presence,
                   t_first_radar, belt_df, t_first_belt, merged>>
    /\ UNCHANGED <<beltVars, radarVars>>

AnalysisNext ==
    \/ LoadRadarStep
    \/ LoadBeltStep
    \/ MergeStep
    \/ MetricsStep

vars == <<beltVars, radarVars, analysisVars>>

BeltInit == BeltStart /\ RadarIdle /\ AnalysisIdle
RadarInit == RadarStart /\ BeltIdle /\ AnalysisIdle
AnalysisInit == (MergeStart \/ ColdStartStart) /\ BeltIdle /\ RadarIdle

BeltSpec == BeltInit /\ [][BeltNext]_vars
RadarSpec == RadarInit /\ [][RadarNext]_vars
AnalysisSpec == AnalysisInit /\ [][AnalysisNext]_vars

(***************************************************************************)
(* Claims about the belt loop.                                             *)
(***************************************************************************)

C2_ReleaseExactlyOnce ==
    (bpc = "done" /\ opened) => (stop_calls = 1 /\ close_calls = 1)

\* C6 (as amended): Is_New_Value of a belt row is true for the first row and
\* for a row whose raw reading differs from the raw reading behind the row
\* before it, false otherwise (the comparison is made before the rate is
\* rounded to two decimals); the value the next reading is compared against is
\* always the raw reading of the last written row, whatever no-data polls
\* came in between.
C6_IsNewValue ==
    /\ Len(raw_written) = Len(belt_rows)
    /\ \A i \in 1..Len(belt_rows) :
          belt_rows[i].Is_New_Value <=> (i = 1 \/ raw_written[i] # raw_written[i - 1])
    /\ last_bpm = IF belt_rows = <<>> THEN None
                  ELSE Some(raw_written[Len(raw_written)])

\* C6 witness: two rows written alike from different readings, the second
\* flagged new, with a no-data poll since the loop began.
C6_Witness ==
    /\ Len(belt_rows) = 2
    /\ belt_rows[2].Is_New_Value
    /\ belt_rows[1].Belt_Breath_Rate_BPM = belt_rows[2].Belt_Breath_Rate_BPM
    /\ k > 2

\* C6 (original): Is_New_Value is true for the first row and for a row whose
\* written rate differs from the rate written in the row before it, and false
\* otherwise.
C6_IsNewOnWrittenRate ==
    \A i \in 1..Len(belt_rows) :
        belt_rows[i].Is_New_Value <=>
            (i = 1 \/ belt_rows[i].Belt_Breath_Rate_BPM
                        # belt_rows[i - 1].Belt_Breath_Rate_BPM)

(***************************************************************************)
(* Claims about the radar loop.                                            *)
(***************************************************************************)

\* The frame has a breathing result with a positive rate.
HasPositiveRate(frame) ==
    /\ frame.breathing_result # None
    /\ Val(frame.breathing_result) # None
    /\ Val(Val(frame.breathing_result)) > 0

\* The frame reports presence detected at a distance inside [0.4, 0.7] m.
FrameInWindow(frame) ==
    /\ frame.presence_result # None
    /\ Val(frame.presence_result).presence_detected
    /\ Val(frame.presence_result).presence_distance # None
    /\ Val(Val(frame.presence_result).presence_distance) \in 4..7

\* C3: every row written by the radar loop carries the quality flag given by
\* the precedence breathing result with a positive rate -> "breathing",
\* breathing result without a usable rate -> "breathing_no_rate", presence
\* result only -> "presence_only", neither -> "none"; and Breath_Rate_BPM is
\* non-empty in exactly the rows flagged "breathing".
C3_QualityFlag ==
    /\ Len(radar_frames) = Len(radar_rows)
    /\ \A i \in 1..Len(radar_rows) :
          LET frame == radar_frames[i]
              row == radar_rows[i]
          IN  /\ row.Quality_Flag =
                    CASE HasPositiveRate(frame) -> "breathing"
                      [] ~HasPositiveRate(frame) /\ frame.breathing_result # None
                            -> "breathing_no_rate"
                      [] frame.breathing_result = None /\ frame.presence_result # None
                            -> "presence_only"
                      [] OTHER -> "none"
              /\ (row.Quality_Flag = "breathing") <=> (row.Breath_Rate_BPM # None)

\* C3 witness: three rows flagged "breathing" (with its rate), then
\* "breathing_no_rate" for a rate of 0, then "presence_only".
C3_Witness ==
    /\ Len(radar_rows) = 3
    /\ radar_rows[1].Quality_Flag = "breathing"
    /\ radar_rows[1].Breath_Rate_BPM = Some(1200)
    /\ radar_frames[2].breathing_result = Some(Some(0))
    /\ radar_rows[2].Quality_Flag = "breathing_no_rate"
    /\ radar_rows[3].Quality_Flag = "presence_only"

\* C4: Radar_Enter_Time is empty in every row before the first frame that
\* reports presence detected inside the inclusive window, and in that row and
\* every later row it is that first frame's timestamp.
C4_EnterTimeLatch ==
    /\ \A i \in 1..Len(radar_rows) :
          LET hits == {j \in 1..i : FrameInWindow(radar_frames[j])}
              first == CHOOSE j \in hits : \A h \in hits : j <= h
          IN  radar_rows[i].Radar_Enter_Time =
                 IF hits = {} THEN None ELSE Some(radar_rows[first].Timestamp)
    /\ radar_rows # <<>> =>
          radar_enter_time = radar_rows[Len(radar_rows)].Radar_Enter_Time

\* C4 witness: an empty enter time in the first row, the latch set in the
\* second row at the window's upper end, and a third in-range frame at another
\* distance whose row repeats the second row's value.
C4_Witness ==
    /\ Len(radar_rows) = 3
    /\ radar_rows[1].Radar_Enter_Time = None
    /\ radar_rows[2].Presence_Distance_m = Some(7)
    /\ radar_rows[2].Radar_Enter_Time = Some(radar_rows[2].Timestamp)
    /\ FrameInWindow(radar_frames[3])
    /\ radar_rows[3].Presence_Distance_m = Some(4)
    /\ radar_rows[3].Radar_Enter_Time = radar_rows[2].Radar_Enter_Time

\* C5 (original): when the frame source reports on a poll that its background
\* process has terminated, no error leaves the loop, and once main is over the
\* ref app has been stopped and the client closed.
C5_SourceDeathExitsCleanly ==
    /\ radar_error = None
    /\ rpc \in {"done", "raised"} => (ref_app_stopped /\ client_closed)

(***************************************************************************)
(* Claims about the offline analysis.                                      *)
(***************************************************************************)

\* merge_radar_belt has run.
HasMerged == apc \in {"metrics", "done"}

\* Distance in time between radar row i and belt row j once the belt row's
\* timestamp has been moved by d.
TimeDiff(i, j, d) == Abs(belt_df[j].Timestamp + d - radar_df[i].Timestamp)

\* C7: the merged frame has one row per radar row, in the radar rows' order;
\* a radar row with no belt row within the tolerance has all belt-side fields
\* missing, and every other radar row carries the fields of a belt row whose
\* shifted timestamp is within the tolerance and nearest to the radar
\* timestamp among all belt rows, before or after it.
C7_NearestWithinTolerance ==
    HasMerged =>
        /\ Len(merged) = Len(radar_df)
        /\ \A i \in 1..Len(merged) :
              /\ merged[i].Timestamp_radar = radar_df[i].Timestamp
              /\ merged[i].Breath_Rate_BPM = radar_df[i].Breath_Rate_BPM
              /\ IF \A j \in 1..Len(belt_df) : TimeDiff(i, j, belt_shift_s) > tolerance_s
                    THEN /\ merged[i].Timestamp_belt = None
                         /\ merged[i].Belt_Breath_Rate_BPM = None
                         /\ merged[i].Timestamp_shifted = None
                    ELSE \E j \in 1..Len(belt_df) :
                            /\ TimeDiff(i, j, belt_shift_s) <= tolerance_s
                            /\ \A h \in 1..Len(belt_df) :
                                  TimeDiff(i, j, belt_shift_s) <= TimeDiff(i, h, belt_shift_s)
                            /\ merged[i].Timestamp_belt = Some(belt_df[j].Timestamp)
                            /\ merged[i].Belt_Breath_Rate_BPM = belt_df[j].Belt_Breath_Rate_BPM
                            /\ merged[i].Timestamp_shifted =
                                  Some(belt_df[j].Timestamp + belt_shift_s)

\* C7 witness: two radar rows and two belt rows; one radar row has a belt row
\* within the tolerance on either side and is paired with the later, nearer
\* one; the other radar row has no belt row within the tolerance.
C7_Witness ==
    /\ HasMerged
    /\ Len(merged) = 2
    /\ Len(belt_df) = 2
    /\ \E i \in 1..2 :
          /\ merged[i].Timestamp_shifted # None
          /\ Val(merged[i].Timestamp_shifted) > merged[i].Timestamp_radar
          /\ \E j \in 1..2 :
                /\ belt_df[j].Timestamp + belt_shift_s < radar_df[i].Timestamp
                /\ TimeDiff(i, j, belt_shift_s) <= tolerance_s
    /\ \E i \in 1..2 : merged[i].Timestamp_belt = None

\* The belt frame with d added to every timestamp.
BeltMovedBy(d) ==
    [j \in 1..Len(belt_df) |->
        [Timestamp |-> belt_df[j].Timestamp + d,
         Belt_Breath_Rate_BPM |-> belt_df[j].Belt_Breath_Rate_BPM]]

\* Which belt row each merged row is paired with, and at which shifted time.
Pairing(m) ==
    [i \in 1..Len(m) |->
        [right_index |-> m[i].right_index,
         Timestamp_shifted |-> m[i].Timestamp_shifted,
         Belt_Breath_Rate_BPM |-> m[i].Belt_Breath_Rate_BPM]]

\* C8 (as amended): merging with a belt time shift of X gives the same
\* radar-to-belt pairing as first adding X to every belt timestamp and then
\* merging with shift 0.
C8_ShiftIsAddition ==
    HasMerged =>
        Pairing(merged) =
            Pairing(MergeRadarBelt(radar_df, BeltMovedBy(belt_shift_s), 0, tolerance_s))

\* C8 witness: a merge with a non-zero shift that pairs a radar row which
\* the same merge with shift 0 leaves without a partner.
C8_Witness ==
    /\ HasMerged
    /\ belt_shift_s # 0
    /\ \E i \in 1..Len(merged) :
          /\ merged[i].right_index # 0
          /\ MergeRadarBelt(radar_df, belt_df, 0, tolerance_s)[i].right_index = 0

\* C8 (original): merging with a belt time shift of +X gives the same pairing
\* as first subtracting X from every belt timestamp and then merging with
\* shift 0.
C8_ShiftIsSubtraction ==
    HasMerged =>
        Pairing(merged) =
            Pairing(MergeRadarBelt(radar_df, BeltMovedBy(0 - belt_shift_s), 0, tolerance_s))

\* No merged row has both a radar rate and a belt rate.
NoOverlap ==
    \A i \in 1..Len(merged) :
        merged[i].Breath_Rate_BPM = None \/ merged[i].Belt_Breath_Rate_BPM = None

\* C9 (as amended): when no merged row has both rates, the mean absolute
\* error, the mean signed error and the correlation are reported as
\* unavailable (None), and the overlap count is reported as the number 0.
C9_NoOverlapMetrics ==
    (apc = "done" /\ NoOverlap) =>
        /\ Val(metrics).overlap.mean_abs_error_bpm = None
        /\ Val(metrics).overlap.mean_signed_error_bpm = None
        /\ Val(metrics).overlap.corr_radar_belt = None
        /\ Val(metrics).overlap.n_overlap_samples = Some(0)

\* C9 witness: metrics computed for a merge in which a radar row with a rate
\* is paired with a belt row whose rate is missing, and no row has both.
C9_Witness ==
    /\ apc = "done"
    /\ NoOverlap
    /\ \E i \in 1..Len(merged) :
          /\ merged[i].Breath_Rate_BPM # None
          /\ merged[i].right_index # 0

\* C9 (original): when no merged row has both rates, all four overlap metrics
\* are reported as unavailable, none of them as a number.
C9_AllFourUnavailable ==
    (apc = "done" /\ NoOverlap) =>
        /\ Val(metrics).overlap.mean_abs_error_bpm = None
        /\ Val(metrics).overlap.mean_signed_error_bpm = None
        /\ Val(metrics).overlap.corr_radar_belt = None
        /\ Val(metrics).overlap.n_overlap_samples = None

\* Timestamps of the radar rows flagged "breathing" with a numeric rate.
BreathTimes ==
    {radar_csv[i].Timestamp : i \in
        {j \in 1..Len(radar_csv) :
            /\ radar_csv[j].Quality_Flag = "breathing"
            /\ radar_csv[j].Breath_Rate_BPM # None}}

\* Timestamps of the radar rows with presence detected inside [0.4, 0.7] m.
PresenceTimes ==
    {radar_csv[i].Timestamp : i \in
        {j \in 1..Len(radar_csv) :
            /\ radar_csv[j].Presence_Detected = Some(TRUE)
            /\ radar_csv[j].Presence_Distance_m # None
            /\ Val(radar_csv[j].Presence_Distance_m) \in 4..7}}

\* C10: the reported cold-start latency is the earliest timestamp of a radar
\* row flagged "breathing" with a numeric rate minus the earliest timestamp
\* of a radar row with presence detected inside the inclusive window, and it
\* is absent exactly when one of the two kinds of row does not occur.
C10_ColdStartLatency ==
    apc = "done" =>
        Val(metrics).radar_cold_start_from_presence =
            IF BreathTimes = {} \/ PresenceTimes = {}
               THEN None
               ELSE Some(MinOf(BreathTimes) - MinOf(PresenceTimes))

\* C10 witness: presence in range at 2.0 s, first valid rate at 10.0 s,
\* latency 8.0 s (quarter seconds: 8, 40, 32).
C10_Witness ==
    /\ apc = "done"
    /\ MinOf(PresenceTimes \cup {40}) = 8
    /\ MinOf(BreathTimes \cup {41}) = 40
    /\ Val(metrics).radar_cold_start_from_presence = Some(32)


(***************************************************************************)
(* Claims about interruption and scheduling of the belt loop               *)
(***************************************************************************)

\* C11 (original): an interrupt is cooperative, so no reading obtained from
\* the device is lost: once the belt loop has released its resources, every
\* reading that g.read() returned has its CSV row written.
C11_NoReadingLost ==
    bpc \in {"finally_stop", "finally_close", "done"} => Len(belt_rows) = n_read


\* C12: the belt loop schedules its polls without accumulating drift.  The
\* wait after an iteration is never negative and ends at start + k * interval:
\* a poll never begins before its deadline; it begins exactly on it when the
\* iteration before it ended by then, whatever earlier iterations did, and
\* without any wait otherwise; and as long as every iteration has taken less
\* than one interval, poll k begins at exactly start + k * interval.
C12_NoDrift ==
    /\ bpc = "read" =>
          /\ poll_start >= k * sample_interval_s
          /\ on_time => poll_start = k * sample_interval_s
    /\ (bpc = "while" /\ k > 0) =>
          /\ now >= last_check
          /\ last_check <= k * sample_interval_s => now = k * sample_interval_s
          /\ last_check > k * sample_interval_s => now = last_check

\* C12 witness: the third poll of a loop with a 2 s interval begins on its
\* deadline, 1 s after the iteration before it ended, every iteration so far
\* having taken less than one interval.
C12_Witness ==
    /\ bpc = "read"
    /\ on_time
    /\ k = 2
    /\ sample_interval_s = 2
    /\ last_check = 3
    /\ poll_start = 4


(***************************************************************************)
(* Claims relating the radar loop to the offline analysis                  *)
(***************************************************************************)

\* The first in-range presence time load_radar computes from the rows the
\* radar loop has written so far, with the window 0.4 to 0.7 m.
OfflineEnterTime == LoadRadar(radar_rows, presence_min, presence_max).t_presence

\* C13: for the rows written by the radar loop, the first in-range presence
\* time recomputed by load_radar equals the Radar_Enter_Time latched into the
\* rows (every non-empty Radar_Enter_Time, and that of the last row), and it
\* is absent exactly when Radar_Enter_Time is empty in every row.
C13_OfflineEqualsLatched ==
    \E offline \in {OfflineEnterTime} :
       /\ \A i \in 1..Len(radar_rows) :
             radar_rows[i].Radar_Enter_Time # None =>
                radar_rows[i].Radar_Enter_Time = offline
       /\ Len(radar_rows) > 0 =>
             radar_rows[Len(radar_rows)].Radar_Enter_Time = offline
       /\ offline = None <=>
             \A i \in 1..Len(radar_rows) : radar_rows[i].Radar_Enter_Time = None

\* C13 witness: three rows written; the first has presence detected outside
\* the window and an empty enter time, the second and third are in the
\* window, and load_radar gives the second row's timestamp, which is the
\* value latched in the last row.
C13_Witness ==
    /\ Len(radar_rows) = 3
    /\ radar_rows[1].Presence_Detected = Some(TRUE)
    /\ radar_rows[1].Presence_Distance_m = Some(8)
    /\ radar_rows[1].Radar_Enter_Time = None
    /\ PresenceMask(radar_rows[2], presence_min, presence_max)
    /\ PresenceMask(radar_rows[3], presence_min, presence_max)
    /\ OfflineEnterTime = Some(radar_rows[2].Timestamp)
    /\ radar_rows[3].Radar_Enter_Time = OfflineEnterTime

====
